---- MODULE Spec2Model ----
(***************************************************************************)
(* Model of the Modelfile parser of src/modelfile-parser.cpp.              *)
(*                                                                         *)
(* A file is a sequence of characters (one-character strings).  The state  *)
(* is the file being read, the read cursor of the FILE*, the ModelFile     *)
(* under construction and the position of parse_modelfile.  One action is  *)
(* one iteration of the while loop of parse_modelfile, with the whole call *)
(* to parse_line (and, from it, to read_multiline) inside it.              *)
(***************************************************************************)
EXTENDS Integers, Sequences, FiniteSets, TLC

VARIABLES file, pos, model, pc

vars == <<file, pos, model, pc>>

(***************************************************************************)
(* Characters                                                              *)
(***************************************************************************)
Q == "\""
NL == "\n"
CR == "\r"
TAB == "\t"
SP == " "

\* the triple-quote marker searched for by line.find("\"\"\"")
Marker == <<Q, Q, Q>>

\* the character set of find_last_not_of(" \n\r\t")
TrimSet == {SP, NL, CR, TAB}

\* sizeof(buffer): fgets stores at most BufSize - 1 characters per call
BufSize == 1024

KW_FROM == <<"F", "R", "O", "M", SP>>
KW_PARAMETER == <<"P", "A", "R", "A", "M", "E", "T", "E", "R", SP>>
KW_TEMPLATE == <<"T", "E", "M", "P", "L", "A", "T", "E", SP>>
KW_SYSTEM == <<"S", "Y", "S", "T", "E", "M", SP>>
KW_ADAPTER == <<"A", "D", "A", "P", "T", "E", "R", SP>>
KW_LICENSE == <<"L", "I", "C", "E", "N", "S", "E", SP>>
KW_MESSAGE == <<"M", "E", "S", "S", "A", "G", "E", SP>>

(***************************************************************************)
(* std::string operations, with the 0-based offsets of the source          *)
(***************************************************************************)
MinOf(a, b) == IF a <= b THEN a ELSE b

\* str.substr(off)
Substr(str, off) == SubSeq(str, off + 1, Len(str))

\* str.substr(off, n)
SubstrN(str, off, n) == SubSeq(str, off + 1, MinOf(off + n, Len(str)))

\* str.find(ch, off): the least offset >= off holding ch, -1 for npos
Find(str, ch, off) ==
    IF \E i \in off .. (Len(str) - 1) : str[i + 1] = ch
    THEN CHOOSE i \in off .. (Len(str) - 1) :
             /\ str[i + 1] = ch
             /\ \A j \in off .. (i - 1) : str[j + 1] # ch
    ELSE -1

\* str.find("\"\"\"") != std::string::npos
HasMarker(str) ==
    \E i \in 1 .. (Len(str) - 2) :
        /\ str[i] = Q
        /\ str[i + 1] = Q
        /\ str[i + 2] = Q

starts_with(str, prefix) == SubstrN(str, 0, Len(prefix)) = prefix

\* Trim that leaves the line as read
Trim_Nothing(line) == line

\* line.erase(line.find_last_not_of(" \n\r\t") + 1)
Trim(line) ==
    LET keep == CHOOSE k \in 0 .. Len(line) :
                    /\ k = 0 \/ line[k] \notin TrimSet
                    /\ \A j \in (k + 1) .. Len(line) : line[j] \in TrimSet
    IN  SubSeq(line, 1, keep)

(***************************************************************************)
(* The FILE* : f is the content, p the number of characters already read   *)
(***************************************************************************)
\* std::fgets(buffer, sizeof(buffer), file): the characters from the cursor
\* up to and including the next newline, at most BufSize - 1 of them;
\* the empty sequence stands for the NULL returned at end of file
fgets(f, p) ==
    LET lim == MinOf(Len(f), p + BufSize - 1)
        e   == IF \E i \in (p + 1) .. lim : f[i] = NL
               THEN CHOOSE i \in (p + 1) .. lim :
                        /\ f[i] = NL
                        /\ \A j \in (p + 1) .. (i - 1) : f[j] # NL
               ELSE lim
    IN  SubSeq(f, p + 1, e)

\* the while loop of read_multiline: accumulate raw buffers until one holds
\* the marker or the file ends
RECURSIVE ReadLoop(_, _, _)
ReadLoop(f, p, result) ==
    LET buffer == fgets(f, p)
    IN  IF buffer = <<>>
        THEN [result |-> result, pos |-> p]
        ELSE IF HasMarker(buffer)
             THEN [result |-> result \o buffer, pos |-> p + Len(buffer)]
             ELSE ReadLoop(f, p + Len(buffer), result \o buffer)

\* if (!result.empty() && result.back() == '\n') result.pop_back()
PopNewline(result) ==
    IF result # <<>> /\ result[Len(result)] = NL
    THEN SubSeq(result, 1, Len(result) - 1)
    ELSE result

read_multiline(f, p) ==
    LET r == ReadLoop(f, p, <<>>)
    IN  [result |-> PopNewline(r.result), pos |-> r.pos]

(***************************************************************************)
(* struct ModelFile and parse_line                                         *)
(***************************************************************************)
EmptyModel ==
    [from |-> <<>>, parameters |-> <<>>, template_str |-> <<>>,
     system |-> <<>>, adapter |-> <<>>, license |-> <<>>, messages |-> <<>>]

\* SplitPair with a line that has no separating space kept as a pair with an
\* empty value
SplitPair_KeepsKeyOnly(line, off) ==
    LET space_pos == Find(line, SP, off)
    IN  IF space_pos # -1
        THEN << <<SubstrN(line, off, space_pos - off), Substr(line, space_pos + 1)>> >>
        ELSE << <<Substr(line, off), <<>> >> >>

\* the PARAMETER and MESSAGE branches: split at the first space at or after
\* offset off; no such space leaves the list alone
SplitPair(line, off) ==
    LET space_pos == Find(line, SP, off)
    IN  IF space_pos # -1
        THEN << <<SubstrN(line, off, space_pos - off), Substr(line, space_pos + 1)>> >>
        ELSE <<>>

\* Assign with the value appended to the field instead of replacing it
Assign_Appends(m, field, value) == [m EXCEPT ![field] = @ \o value]

\* model.<field> = <value>, the assignment of the scalar branches
Assign(m, field, value) == [m EXCEPT ![field] = value]

\* the SYSTEM and LICENSE branches: the value, and the continuation when the
\* value holds the marker
MultiValue(value, f, p) ==
    IF HasMarker(value)
    THEN LET r == read_multiline(f, p)
         IN  [value |-> value \o <<NL>> \o r.result, pos |-> r.pos]
    ELSE [value |-> value, pos |-> p]

\* parse_line(line, model, file): the new model and the new cursor
parse_line(line, m, f, p) ==
    IF starts_with(line, KW_FROM)
    THEN [model |-> Assign(m, "from", Substr(line, 5)), pos |-> p]
    ELSE IF starts_with(line, KW_PARAMETER)
    THEN [model |-> [m EXCEPT !.parameters = @ \o SplitPair(line, 10)], pos |-> p]
    ELSE IF starts_with(line, KW_TEMPLATE)
    THEN [model |-> Assign(m, "template_str", Substr(line, 9)), pos |-> p]
    ELSE IF starts_with(line, KW_SYSTEM)
    THEN LET v == MultiValue(Substr(line, 7), f, p)
         IN  [model |-> Assign(m, "system", v.value), pos |-> v.pos]
    ELSE IF starts_with(line, KW_ADAPTER)
    THEN [model |-> Assign(m, "adapter", Substr(line, 8)), pos |-> p]
    ELSE IF starts_with(line, KW_LICENSE)
    THEN LET v == MultiValue(Substr(line, 8), f, p)
         IN  [model |-> Assign(m, "license", v.value), pos |-> v.pos]
    ELSE IF starts_with(line, KW_MESSAGE)
    THEN [model |-> [m EXCEPT !.messages = @ \o SplitPair(line, 8)], pos |-> p]
    ELSE [model |-> m, pos |-> p]

\* if (line.empty() || line[0] == '#') continue;
Skipped(line) == IF line = <<>> THEN TRUE ELSE line[1] = "#"

\* one iteration of the while loop of parse_modelfile from cursor p
Iteration(f, p, m) ==
    LET buffer == fgets(f, p)
        line   == Trim(buffer)
    IN  IF Skipped(line)
        THEN [model |-> m, pos |-> p + Len(buffer)]
        ELSE parse_line(line, m, f, p + Len(buffer))

\* the while loop of parse_modelfile run to the end of the file
RECURSIVE ParseRest(_, _, _)
ParseRest(f, p, m) ==
    IF fgets(f, p) = <<>>
    THEN m
    ELSE LET r == Iteration(f, p, m) IN ParseRest(f, r.pos, r.model)

(***************************************************************************)
(* Input files                                                             *)
(***************************************************************************)
\* most physical lines of an input file
MaxLines == 3

LnFrom == <<"F", "R", "O", "M", SP, "a">>
LnFromQ == <<"F", "R", "O", "M", SP, "b", Q, Q, Q>>
LnParam == <<"P", "A", "R", "A", "M", "E", "T", "E", "R", SP, "k", SP, "v">>
LnParamNoSep == <<"P", "A", "R", "A", "M", "E", "T", "E", "R", SP, "k">>
LnMessage == <<"M", "E", "S", "S", "A", "G", "E", SP, "u", SP, "h", SP, "i">>
LnTemplate == <<"T", "E", "M", "P", "L", "A", "T", "E", SP, "t">>
LnAdapter == <<"A", "D", "A", "P", "T", "E", "R", SP, "d", SP, CR>>
LnSystemOpen == <<"S", "Y", "S", "T", "E", "M", SP, Q, Q, Q, "s">>
LnSystem == <<"S", "Y", "S", "T", "E", "M", SP, "p">>
LnLicenseBoth == <<"L", "I", "C", "E", "N", "S", "E", SP, Q, Q, Q, "m", Q, Q, Q>>
LnClose == <<"e", Q, Q, Q>>
LnComment == <<"#", SP, "c">>
LnBlank == <<SP>>
LnLower == <<"f", "r", "o", "m", SP, "a">>

ShortLines ==
    {LnFrom, LnParam, LnParamNoSep, LnMessage, LnTemplate, LnAdapter,
     LnSystemOpen, LnSystem, LnLicenseBoth, LnClose, LnComment, LnBlank}

RECURSIVE Join(_)
Join(ls) == IF ls = <<>> THEN <<>> ELSE Head(ls) \o <<NL>> \o Join(Tail(ls))

\* files of at most MaxLines short lines; the last line may lack its newline
ShortFiles ==
    LET texts == {Join(ls) : ls \in UNION {[1 .. n -> ShortLines] : n \in 0 .. MaxLines}}
    IN  texts \cup {SubSeq(t, 1, Len(t) - 1) : t \in texts \ {<<>>}}

Pad(n) == [i \in 1 .. n |-> "a"]

\* files with one physical line that does not fit one fgets buffer
LongFiles ==
    { \* a FROM line longer than the buffer
      KW_FROM \o Pad(BufSize - 4) \o <<NL>>,
      \* a closing marker that straddles two buffers of the continuation
      KW_SYSTEM \o Marker \o <<NL>> \o Pad(BufSize - 2) \o Marker \o <<NL>>
          \o LnFrom \o <<NL>>,
      \* a comment and an unmatched line whose tail lands in a buffer of its own
      <<"#">> \o Pad(BufSize - 2) \o LnFrom \o <<NL>>,
      <<"x">> \o Pad(BufSize - 2) \o LnTemplate \o <<NL>>,
      \* a PARAMETER and a MESSAGE line whose tail lands in a buffer of its own
      KW_PARAMETER \o <<"k", SP>> \o Pad(BufSize - 14) \o <<SP>> \o LnParam \o <<NL>>,
      KW_MESSAGE \o <<"u", SP>> \o Pad(BufSize - 12) \o <<SP>> \o LnMessage \o <<NL>>,
      \* SYSTEM and LICENSE lines that open a continuation and exceed the buffer
      KW_SYSTEM \o Marker \o Pad(BufSize - 4) \o <<NL>>,
      KW_LICENSE \o Marker \o Pad(BufSize - 4) \o <<NL>> \o LnAdapter \o <<NL>> }

LnMessageNoSep == <<"M", "E", "S", "S", "A", "G", "E", SP, "u">>
LnParamEmptyKey == <<"P", "A", "R", "A", "M", "E", "T", "E", "R", SP, SP, "v">>
LnLicense == <<"L", "I", "C", "E", "N", "S", "E", SP, "g">>
LnNoSpace == <<"F", "R", "O", "M", "x">>
LnTabs == <<TAB, SP, TAB>>

\* a few more short files, for the line shapes ShortLines leaves out
ExtraFiles ==
    { Join(<<LnMessageNoSep, LnMessage>>),
      Join(<<LnParamEmptyKey, LnParam, LnParam>>),
      Join(<<LnLicenseBoth, LnClose, LnLicense>>),
      Join(<<LnNoSpace, LnTabs, LnFrom>>),
      Join(<<LnFromQ, LnLower, LnTemplate>>),
      Join(<<LnSystem, LnFromQ, LnClose, LnAdapter>>),
      Join(<<LnSystemOpen, LnMessageNoSep, LnTabs, LnClose, LnMessage>>) }

Files == ShortFiles \cup ExtraFiles \cup LongFiles

(***************************************************************************)
(* parse_modelfile as a state machine                                      *)
(***************************************************************************)
Init ==
    /\ file \in Files
    /\ pos = 0
    /\ model = EmptyModel
    /\ pc = "open"

\* FILE* file = std::fopen(...); if (!file) return model;
\* whether the file can be opened is the environment's choice
OpenFail ==
    /\ pc = "open"
    /\ pc' = "done"
    /\ UNCHANGED <<file, pos, model>>

Open ==
    /\ pc = "open"
    /\ pc' = "loop"
    /\ UNCHANGED <<file, pos, model>>

\* an iteration that ends at the continue statement
SkipLine ==
    /\ pc = "loop"
    /\ fgets(file, pos) # <<>>
    /\ Skipped(Trim(fgets(file, pos)))
    /\ pos' = Iteration(file, pos, model).pos
    /\ model' = Iteration(file, pos, model).model
    /\ UNCHANGED <<file, pc>>

\* an iteration that calls parse_line
ParseLine ==
    /\ pc = "loop"
    /\ fgets(file, pos) # <<>>
    /\ ~Skipped(Trim(fgets(file, pos)))
    /\ pos' = Iteration(file, pos, model).pos
    /\ model' = Iteration(file, pos, model).model
    /\ UNCHANGED <<file, pc>>

\* fgets returns NULL: std::fclose(file); return model;
Close ==
    /\ pc = "loop"
    /\ fgets(file, pos) = <<>>
    /\ pc' = "done"
    /\ UNCHANGED <<file, pos, model>>

Next == OpenFail \/ Open \/ SkipLine \/ ParseLine \/ Close

Spec == Init /\ [][Next]_vars

(***************************************************************************)
(* The source as physical lines, for the statements below                  *)
(***************************************************************************)
\* the index of the newline that ends the physical line starting after p,
\* or the length of the file when the last line has none
LineEnd(f, p) ==
    IF \E i \in (p + 1) .. Len(f) : f[i] = NL
    THEN CHOOSE i \in (p + 1) .. Len(f) :
             /\ f[i] = NL
             /\ \A j \in (p + 1) .. (i - 1) : f[j] # NL
    ELSE Len(f)

PhysLine(f, p) == SubSeq(f, p + 1, LineEnd(f, p))

\* the cursors at which a physical line starts
LineStarts(f) == {p \in 0 .. (Len(f) - 1) : IF p = 0 THEN TRUE ELSE f[p] = NL}

\* every physical line, newline included, fits one fgets buffer
FitsBuffer(f) == \A p \in LineStarts(f) : LineEnd(f, p) - p <= BufSize - 1

\* the end of the first physical line after p that holds the marker, 0 if none
RECURSIVE FirstMarkerLineEnd(_, _)
FirstMarkerLineEnd(f, p) ==
    IF p >= Len(f) THEN 0
    ELSE IF HasMarker(PhysLine(f, p)) THEN LineEnd(f, p)
    ELSE FirstMarkerLineEnd(f, LineEnd(f, p))

RemoveRange(f, a, b) == SubSeq(f, 1, a - 1) \o SubSeq(f, b + 1, Len(f))

Keywords ==
    {KW_FROM, KW_PARAMETER, KW_TEMPLATE, KW_SYSTEM, KW_ADAPTER, KW_LICENSE, KW_MESSAGE}

\* the main loop is about to pull, and the cursor is at the start of a
\* physical line
AtLineStart == IF pos = 0 THEN TRUE ELSE file[pos] = NL
MainAtLine == pc = "loop" /\ pos < Len(file) /\ AtLineStart

\* the physical line at the cursor, right-trimmed, and where it ends
Cur == Trim(PhysLine(file, pos))
CurEnd == LineEnd(file, pos)

\* the physical line at the cursor is a SYSTEM (LICENSE) directive whose value
\* holds the marker
OpensSystem == MainAtLine /\ starts_with(Cur, KW_SYSTEM) /\ HasMarker(Substr(Cur, 7))
OpensLicense == MainAtLine /\ starts_with(Cur, KW_LICENSE) /\ HasMarker(Substr(Cur, 8))

\* the raw text of the physical lines after the one at the cursor up to and
\* including the first that holds the marker (to the end of the file if none),
\* less one trailing newline
BodyEnd == IF FirstMarkerLineEnd(file, CurEnd) = 0 THEN Len(file)
           ELSE FirstMarkerLineEnd(file, CurEnd)
Body ==
    LET raw == SubSeq(file, CurEnd + 1, BodyEnd)
    IN  IF raw # <<>> /\ raw[Len(raw)] = NL THEN SubSeq(raw, 1, Len(raw) - 1) ELSE raw

OthersUnchanged(field) ==
    \A g \in (DOMAIN EmptyModel) \ {field} : model'[g] = model[g]

(***************************************************************************)
(* Specification over the inputs whose lines all fit one buffer            *)
(***************************************************************************)
InitShort == Init /\ FitsBuffer(file)
SpecShort == InitShort /\ [][Next]_vars

(***************************************************************************)
(* C1                                                                      *)
(***************************************************************************)
\* C1: when the main loop classifies a SYSTEM (LICENSE) line whose value V
\* holds the marker and a later physical line holds the marker, the field
\* becomes V, one newline, and the raw text of the following physical lines
\* through the first one that holds the marker, less one trailing newline.
C1_ContinuationValue ==
    [][ /\ (OpensSystem /\ FirstMarkerLineEnd(file, CurEnd) # 0)
            => model'.system = Substr(Cur, 7) \o <<NL>> \o Body
        /\ (OpensLicense /\ FirstMarkerLineEnd(file, CurEnd) # 0)
            => model'.license = Substr(Cur, 8) \o <<NL>> \o Body ]_vars

(***************************************************************************)
(* C2                                                                      *)
(***************************************************************************)
\* the continuation reader was called for a field: its new value is the
\* directive's value followed by the newline that precedes the buffer
Continued(field, value) ==
    /\ Len(model'[field]) > Len(value)
    /\ SubSeq(model'[field], 1, Len(value) + 1) = value \o <<NL>>

\* C2: the continuation reader is called exactly for a SYSTEM or LICENSE line
\* whose value holds the marker; every other classified line, a SYSTEM or
\* LICENSE line without the marker included, consumes exactly its own
\* physical line, so that the next line is classified on its own.
C2_ContinuationOnlyForMarker ==
    [][ (MainAtLine /\ ~Skipped(Cur)) =>
          IF OpensSystem THEN Continued("system", Substr(Cur, 7))
          ELSE IF OpensLicense THEN Continued("license", Substr(Cur, 8))
          ELSE /\ pos' = CurEnd
               /\ starts_with(Cur, KW_SYSTEM) => model'.system = Substr(Cur, 7)
               /\ starts_with(Cur, KW_LICENSE) => model'.license = Substr(Cur, 8) ]_vars

(***************************************************************************)
(* C3                                                                      *)
(***************************************************************************)
\* C3: a continuation consumes the lines up to and including the first that
\* holds the marker and no further, changes no field but the one under
\* continuation, and leaves the cursor at the start of the next physical
\* line, which the main loop then filters and classifies.
C3_ContinuationConsumes ==
    [][ /\ OpensSystem => (pos' = BodyEnd /\ OthersUnchanged("system"))
        /\ OpensLicense => (pos' = BodyEnd /\ OthersUnchanged("license")) ]_vars

(***************************************************************************)
(* C4                                                                      *)
(***************************************************************************)
\* C4: a FROM, TEMPLATE or ADAPTER line classified by the main loop sets its
\* field to the exact text of the (right-trimmed) line after the keyword and
\* its separating space.
C4_SingleLineValue ==
    [][ MainAtLine =>
          /\ starts_with(Cur, KW_FROM) => model'.from = Substr(Cur, 5)
          /\ starts_with(Cur, KW_TEMPLATE) => model'.template_str = Substr(Cur, 9)
          /\ starts_with(Cur, KW_ADAPTER) => model'.adapter = Substr(Cur, 8) ]_vars

(***************************************************************************)
(* C5                                                                      *)
(***************************************************************************)
\* the pair a PARAMETER (MESSAGE) line stands for: the text between the
\* keyword and the first space after it, and everything after that space
PairOf(line, kw) ==
    IF starts_with(line, kw) /\ (\E i \in (Len(kw) + 1) .. Len(line) : line[i] = SP)
    THEN LET i == CHOOSE i \in (Len(kw) + 1) .. Len(line) :
                      /\ line[i] = SP
                      /\ \A j \in (Len(kw) + 1) .. (i - 1) : line[j] # SP
         IN  << <<SubSeq(line, Len(kw) + 1, i - 1), SubSeq(line, i + 1, Len(line))>> >>
    ELSE <<>>

\* C5: each line classified by the main loop appends to parameters (messages)
\* exactly the pair it stands for, if it is a PARAMETER (MESSAGE) line with a
\* separating space, and nothing otherwise; no pair is overwritten, removed
\* or reordered.
C5_PairsAppended ==
    [][ MainAtLine =>
          /\ model'.parameters = model.parameters \o PairOf(Cur, KW_PARAMETER)
          /\ model'.messages = model.messages \o PairOf(Cur, KW_MESSAGE) ]_vars

(***************************************************************************)
(* C6                                                                      *)
(***************************************************************************)
\* a trimmed line that the claim says contributes nothing
Droppable(line) ==
    \/ Skipped(line)
    \/ \A kw \in Keywords : ~starts_with(line, kw)
    \/ starts_with(line, KW_PARAMETER) /\ PairOf(line, KW_PARAMETER) = <<>>
    \/ starts_with(line, KW_MESSAGE) /\ PairOf(line, KW_MESSAGE) = <<>>

C7_Unterminated ==
    [][ /\ (OpensSystem /\ FirstMarkerLineEnd(file, CurEnd) = 0) =>
              /\ model'.system = Substr(Cur, 7) \o <<NL>> \o Body
              /\ OthersUnchanged("system")
              /\ pos' = Len(file) /\ pc' = "loop"
        /\ (OpensLicense /\ FirstMarkerLineEnd(file, CurEnd) = 0) =>
              /\ model'.license = Substr(Cur, 8) \o <<NL>> \o Body
              /\ OthersUnchanged("license")
              /\ pos' = Len(file) /\ pc' = "loop" ]_vars

(***************************************************************************)
(* C8                                                                      *)
(***************************************************************************)
\* what a step that classifies `line` as the directive kw leaves in `field`:
\* the value alone, or the value, a newline and text of the file between the
\* old and the new cursor; nothing of the field's earlier value
Written(field, kw) ==
    LET buffer == fgets(file, pos)
        value  == Substr(Trim(buffer), Len(kw))
        read   == SubSeq(file, pos + Len(buffer) + 1, pos')
    IN  \/ model'[field] = value
        \/ model'[field] = value \o <<NL>> \o read
        \/ /\ read # <<>>
           /\ model'[field] = value \o <<NL>> \o SubSeq(read, 1, Len(read) - 1)

ScalarKeyword ==
    [from |-> KW_FROM, template_str |-> KW_TEMPLATE, adapter |-> KW_ADAPTER,
     system |-> KW_SYSTEM, license |-> KW_LICENSE]

C9_WholeLinePulls ==
    (pc = "loop" /\ pos < Len(file)) => (AtLineStart /\ fgets(file, pos) = PhysLine(file, pos))

(***************************************************************************)
(* C10                                                                     *)
(***************************************************************************)
WellFormedPair(pair) ==
    /\ \A i \in 1 .. Len(pair[1]) : pair[1][i] # SP
    /\ pair[2] # <<>>
    /\ pair[2][Len(pair[2])] \notin {SP, TAB, CR, NL}

\* C10: every pair of parameters and of messages has a key without a space
\* and a non-empty value that does not end in a space, tab, carriage return
\* or newline.
C10_PairsWellFormed ==
    /\ \A i \in 1 .. Len(model.parameters) : WellFormedPair(model.parameters[i])
    /\ \A i \in 1 .. Len(model.messages) : WellFormedPair(model.messages[i])

C10_Witness ==
    /\ pc = "done"
    /\ Len(model.parameters) > 1
    /\ Len(model.messages) > 0

====
